---- MODULE Spec2Model ----
(***************************************************************************)
(* A model of evaluator.py, the code-assessment pipeline: main() checks    *)
(* the three input files, parses the weight vector, runs the four scorers  *)
(* (syntax, similarity, tests, quality) one after the other, and prints    *)
(* the weighted report.                                                    *)
(*                                                                         *)
(* Numbers: weights are decimals in hundredths (20 stands for 0.2); a      *)
(* score is an exact rational [n, d] with d > 0.  The external tools       *)
(* (pytest, flake8, pylint) are environment: what they print, whether they *)
(* are installed and whether they finish in time is chosen from the sets   *)
(* of a scope.                                                             *)
(***************************************************************************)
EXTENDS Integers, Sequences, FiniteSets, TLC

VARIABLES
    files,            \* the required input files that exist
    weights_arg,      \* args.weights split at ",": a sequence of tokens
    gen_file,         \* what the generated file holds
    ref_file,         \* what the reference file holds, relative to it
    pc,               \* main's position
    weights,          \* main's weights, in hundredths
    syntax_score, similarity_score, test_score, quality_score,
    quality_report,
    final_score,
    stdout,           \* the lines printed so far
    exit_status,      \* -1 while running
    staged,           \* the test directory: the content at each path
    result,           \* run_tests: what subprocess.run gave
    flake8_result,    \* calculate_code_quality: flake8's subprocess.run
    pylint_result,    \* calculate_code_quality: pylint's subprocess.run
    cpc,              \* concurrent invocations: each one's position in run_tests
    observed,         \* concurrent invocations: the module each harness imported
    cret              \* concurrent invocations: how run_tests ended

vars == <<files, weights_arg, gen_file, ref_file, pc, weights, syntax_score,
          similarity_score, test_score, quality_score, quality_report,
          final_score, stdout, exit_status, staged, result, flake8_result,
          pylint_result, cpc, observed, cret>>

inputs == <<files, weights_arg, gen_file, ref_file>>
scores == <<syntax_score, similarity_score, test_score, quality_score,
            quality_report, final_score>>
tools == <<result, flake8_result, pylint_result>>
conc == <<cpc, observed, cret>>
SeqVars == <<inputs, pc, weights, scores, stdout, exit_status, tools>>

(***************************************************************************)
(* Bounds of the model.                                                    *)
(***************************************************************************)
MaxCount == 2        \* the largest count in a pytest summary phrase
MaxFlake8 == 21      \* the most diagnostic lines flake8 prints
MaxPylint == 2       \* the most counted messages in pylint's array
MaxWeightsLen == 4   \* the longest weight vector given on the command line
NInv == 2            \* the concurrent invocations sharing a test directory

(***************************************************************************)
(* Rationals.                                                              *)
(***************************************************************************)
Rat(n, d) == [n |-> n, d |-> d]
Zero == Rat(0, 1)
One == Rat(1, 1)
Half == Rat(5, 10)
RatEq(a, b) == a.n * b.d = b.n * a.d
RatLe(a, b) == a.n * b.d <= b.n * a.d

RECURSIVE SumSeq(_)
SumSeq(s) == IF s = <<>> THEN 0 ELSE s[1] + SumSeq(Tail(s))

Abs(x) == IF x < 0 THEN -x ELSE x

(***************************************************************************)
(* The command line.                                                       *)
(***************************************************************************)
RequiredFiles == {"generated", "reference", "tests"}

\* A token of --weights: a decimal literal (val, in hundredths) or not a number.
NumTok(v) == [ok |-> TRUE, val |-> v]
BadTok == [ok |-> FALSE, val |-> 0]

\* --weights' default, "0.2,0.2,0.3,0.3"
DefaultWeightsArg == <<NumTok(20), NumTok(20), NumTok(30), NumTok(30)>>

\* weights = [0.2, 0.2, 0.3, 0.3]
DefaultWeights == <<20, 20, 30, 30>>

\* len(weights) != 4
NDimensions == 4

\* abs(sum(weights) - 1.0) > 0.01
Tolerance == 1

\* [float(w) for w in args.weights.split(",")]: raises ValueError on a token
\* that is no number
ParseWeightsRaises(arg) == \E i \in 1..Len(arg) : ~arg[i].ok
ParsedWeights(arg) == [i \in 1..Len(arg) |-> arg[i].val]

\* abs(sum(weights) - 1.0) > 0.01, in binary floating point: off the boundary the
\* comparison is the exact one; a decimal sum of exactly 0.99 or 1.01 is
\* rounded by the additions to either side of it (0.05+0.55+0.28+0.13 is
\* rejected, 0.76+1.05+0.82-1.62 is accepted), so both answers occur.
SumOutOfTolerance(w) ==
    LET diff == Abs(SumSeq(w) - 100)
    IN  IF diff > Tolerance THEN {TRUE}
        ELSE IF diff < Tolerance THEN {FALSE}
        ELSE BOOLEAN

\* A faulty variant: the sum is never checked.
WeightsRejectedLengthOnly(w) ==
    IF Len(w) # NDimensions THEN {TRUE} ELSE {FALSE}

\* len(weights) != 4 or abs(sum(weights) - 1.0) > 0.01: the answers possible
WeightsRejected(w) ==
    IF Len(w) # NDimensions THEN {TRUE} ELSE SumOutOfTolerance(w)

(***************************************************************************)
(* calculate_syntax_score and calculate_similarity.                        *)
(* gen_file: "valid", "malformed" (ast.parse raises SyntaxError) or        *)
(* "undecodable" (read() raises UnicodeDecodeError).                       *)
(* ref_file: "same" text, "reformatted" (whitespace changed only),         *)
(* "partial" (half of the normalised characters match), "disjoint" (none   *)
(* match), or "undecodable".                                               *)
(***************************************************************************)
\* Each scorer gives [raised, score, printed]: whether the exception leaves the
\* scorer, the value returned, and the lines it prints.
Returned(score, printed) == [raised |-> FALSE, score |-> score, printed |-> printed]
Propagated(printed) == [raised |-> TRUE, score |-> Zero, printed |-> printed]

calculate_syntax_score(gen) ==
    CASE gen = "valid" -> Returned(One, <<>>)
      [] gen = "malformed" -> Returned(Zero, <<>>)
      [] OTHER -> Returned(Zero, <<"syntax_error_msg">>)

\* SequenceMatcher(None, gen_clean, ref_clean).ratio() of the normalised texts
SequenceRatio(ref) ==
    CASE ref = "same" -> One
      [] ref = "reformatted" -> One
      [] ref = "partial" -> Rat(1, 2)
      [] OTHER -> Zero

calculate_similarity(gen, ref) ==
    IF gen = "undecodable" \/ ref = "undecodable"
    THEN Returned(Zero, <<"similarity_error_msg">>)
    ELSE Returned(SequenceRatio(ref), <<>>)

(***************************************************************************)
(* run_tests.                                                              *)
(***************************************************************************)
\* The content of temp_solution.py
Absent == <<"absent", 0>>
Empty == <<"empty", 0>>
Content(i) == <<"candidate", i>>

\* A token of pytest's output: a word, or a run of digits (w = "num").
Word(w) == [w |-> w, n |-> 0]
Num(n) == [w |-> "num", n |-> n]
CountWords == {"passed", "failed", "error"}

\* "collected 3 items"
HeaderLine == <<Word("collected"), Num(3), Word("items")>>

\* "1 failed, 2 passed in 0.12s": phrases is a sequence of <<count, word>>
RECURSIVE PhraseTokens(_)
PhraseTokens(phrases) ==
    IF phrases = <<>> THEN <<>>
    ELSE <<Num(phrases[1][1]), Word(phrases[1][2])>> \o PhraseTokens(Tail(phrases))

SummaryLine(phrases) == PhraseTokens(phrases) \o <<Word("in"), Num(0), Num(12)>>

\* "passed" in line
HasWord(line, w) == \E i \in 1..Len(line) : line[i].w = w

\* re.findall(r"\d+", line)
RECURSIVE FindNumbers(_)
FindNumbers(line) ==
    IF line = <<>> THEN <<>>
    ELSE IF line[1].w = "num" THEN <<line[1].n>> \o FindNumbers(Tail(line))
    ELSE FindNumbers(Tail(line))

\* the for loop over result.stdout.split("\n"): <<passed, total>> at its end
RECURSIVE ScanLines(_)
ScanLines(lines) ==
    IF lines = <<>> THEN <<0, 0>>
    ELSE LET line == lines[1]
             parts == FindNumbers(line)
         IN  IF HasWord(line, "passed") /\ HasWord(line, "failed") /\ Len(parts) >= 2
             THEN <<parts[1], parts[1] + parts[2]>>
             ELSE ScanLines(Tail(lines))

\* the analysis of the harness output
ParsePytest(lines) ==
    IF \E i \in 1..Len(lines) : HasWord(lines[i], "passed")
    THEN LET pt == ScanLines(lines)
         IN  IF pt[2] > 0 THEN Rat(pt[1], pt[2]) ELSE Zero
    ELSE Zero

\* What subprocess.run(["pytest", ...], timeout=30) does
Ran(lines) == [kind |-> "ran", stdout |-> lines]
TimedOut == [kind |-> "timeout", stdout |-> <<>>]
NotFound == [kind |-> "not_found", stdout |-> <<>>]
NotRun == [kind |-> "not_run", stdout |-> <<>>]

\* os.path.exists(solution_path) and os.remove(solution_path)
RemoveStaged(file) == Absent

\* The staged file when run_tests leaves through an except clause
StagedAfterException(file) == file

(***************************************************************************)
(* calculate_code_quality.                                                 *)
(***************************************************************************)
\* flake8's run: diags diagnostic lines and blanks blank ones on stdout
Flake8Ran(diags, blanks) == [kind |-> "ran", diags |-> diags, blanks |-> blanks]
Flake8Failed(kind) == [kind |-> kind, diags |-> 0, blanks |-> 0]

\* len(flake8_errors): the lines of stdout that are not empty after strip()
Flake8Errors(r) == r.diags

\* pylint's run.  form: "empty" (nothing on stdout), "not_json", "scalar" (JSON,
\* not iterable as objects), "array".  An array holds counted objects of type
\* error, warning, convention or refactor, other objects of another type, and
\* bad: one more element that is "none", "no_type" (an object without "type"),
\* "counted_no_line" (a counted type without "line") or "other_no_line".
PylintRan(form, counted, other, bad) ==
    [kind |-> "ran", form |-> form, counted |-> counted, other |-> other, bad |-> bad]
PylintFailed(kind) ==
    [kind |-> kind, form |-> "empty", counted |-> 0, other |-> 0, bad |-> "none"]

\* json.loads raises JSONDecodeError, which the inner except swallows
PylintJsonError(r) == r.form = "not_json"

\* the list comprehension raises (TypeError, KeyError), which the inner except
\* does not catch
PylintShapeRaises(r) ==
    \/ r.form = "scalar"
    \/ r.form = "array" /\ r.bad \in {"no_type", "counted_no_line"}

\* A faulty variant: no inner except, so the JSON error reaches the outer one too.
PylintRaisesNoInnerExcept(r) == PylintShapeRaises(r) \/ PylintJsonError(r)

\* the exceptions of the pylint block that reach the outer except: the JSON
\* error is swallowed by "except json.JSONDecodeError: pass"
PylintRaises(r) == PylintShapeRaises(r)

\* len(pylint_errors): [] when stdout is empty or is no JSON
PylintErrors(r) ==
    IF r.form = "empty" \/ PylintJsonError(r) THEN 0
    ELSE IF r.form = "array" THEN r.counted
    ELSE 0

\* A faulty variant: the steps end one finding early (< for <=).
QualityOfStrict(total_errors) ==
    IF total_errors = 0 THEN Rat(10, 10)
    ELSE IF total_errors < 5 THEN Rat(8, 10)
    ELSE IF total_errors < 10 THEN Rat(6, 10)
    ELSE IF total_errors < 20 THEN Rat(4, 10)
    ELSE Rat(2, 10)

\* the mapping of total_errors to the quality score
QualityOf(total_errors) ==
    IF total_errors = 0 THEN Rat(10, 10)
    ELSE IF total_errors <= 5 THEN Rat(8, 10)
    ELSE IF total_errors <= 10 THEN Rat(6, 10)
    ELSE IF total_errors <= 20 THEN Rat(4, 10)
    ELSE Rat(2, 10)

Placeholder == <<"placeholder", 0, 0>>
Sections(nf, np) == <<"sections", nf, np>>
NoReport == <<"none", 0, 0>>

\* calculate_code_quality, given the two runs: [raised, score, report, printed]
calculate_code_quality(f, p) ==
    IF \/ f.kind # "ran"
       \/ p.kind # "ran"
       \/ PylintRaises(p)
    THEN [raised |-> FALSE, score |-> Half, report |-> Placeholder,
          printed |-> <<"quality_error_msg">>]
    ELSE [raised |-> FALSE,
          score |-> QualityOf(Flake8Errors(f) + PylintErrors(p)),
          report |-> Sections(Flake8Errors(f), PylintErrors(p)),
          printed |-> <<>>]

(***************************************************************************)
(* main.                                                                   *)
(***************************************************************************)
\* final_score = weights[0] * syntax_score + ... + weights[3] * quality_score
FinalScore(w, s1, s2, s3, s4) ==
    Rat(  w[1] * s1.n * s2.d * s3.d * s4.d
        + w[2] * s2.n * s1.d * s3.d * s4.d
        + w[3] * s3.n * s1.d * s2.d * s4.d
        + w[4] * s4.n * s1.d * s2.d * s3.d,
        100 * s1.d * s2.d * s3.d * s4.d)

\* print("\n".join(results))
ReportLines ==
    <<"Syntax Score", "Similarity Score", "Test Score", "Quality Score",
      "separator", "FINAL SCORE", "blank", "QUALITY REPORT START",
      "quality_report", "QUALITY REPORT END">>

\* A faulty variant: the existence check is skipped.
MissingFilesUnchecked(present) == {}

\* the files of the existence check that are missing
MissingFiles(present) == RequiredFiles \ present

\* except Exception as e: print(...); sys.exit(1)
Fail ==
    /\ stdout' = Append(stdout, "failure")
    /\ exit_status' = 1
    /\ pc' = "done"

CheckFiles ==
    /\ pc = "check_files"
    /\ IF MissingFiles(files) # {}
       THEN Fail
       ELSE /\ pc' = "parse_weights"
            /\ UNCHANGED <<stdout, exit_status>>
    /\ UNCHANGED <<inputs, weights, scores, staged, tools, conc>>

ParseWeights ==
    /\ pc = "parse_weights"
    /\ IF ParseWeightsRaises(weights_arg)
       THEN Fail /\ UNCHANGED weights
       ELSE \E rejected \in WeightsRejected(ParsedWeights(weights_arg)) :
              /\ weights' = IF rejected THEN DefaultWeights
                            ELSE ParsedWeights(weights_arg)
              /\ stdout' = IF rejected THEN Append(stdout, "default_weights_msg")
                           ELSE stdout
              /\ pc' = "syntax"
              /\ UNCHANGED exit_status
    /\ UNCHANGED <<inputs, scores, staged, tools, conc>>

SyntaxStep ==
    /\ pc = "syntax"
    /\ LET r == calculate_syntax_score(gen_file)
       IN  IF r.raised
           THEN Fail /\ UNCHANGED syntax_score
           ELSE /\ syntax_score' = r.score
                /\ stdout' = stdout \o r.printed
                /\ pc' = "similarity"
                /\ UNCHANGED exit_status
    /\ UNCHANGED <<inputs, weights, similarity_score, test_score, quality_score,
                   quality_report, final_score, staged, tools, conc>>

SimilarityStep ==
    /\ pc = "similarity"
    /\ LET r == calculate_similarity(gen_file, ref_file)
       IN  IF r.raised
           THEN Fail /\ UNCHANGED similarity_score
           ELSE /\ similarity_score' = r.score
                /\ stdout' = stdout \o r.printed
                /\ pc' = "rt_stage"
                /\ UNCHANGED exit_status
    /\ UNCHANGED <<inputs, weights, syntax_score, test_score, quality_score,
                   quality_report, final_score, staged, tools, conc>>

Invs == 1..NInv

\* A variant: every invocation stages to a path of its own.
SolutionPathPerInvocation(i) == i

\* solution_path = os.path.join(test_dir, "temp_solution.py"): the path
\* invocation i stages to, as an index into the directory
SolutionPath(i) == 1

\* with open(generated_path) as src, open(solution_path, "w") as dest:
\*     dest.write(src.read())
\* st = "unwritable": open(solution_path, "w") raises and nothing is created;
\* an undecodable source makes src.read() raise after dest was created empty.
StageCopy(file, gen, i, st) ==
    IF st = "unwritable" THEN [raised |-> TRUE, file |-> file]
    ELSE IF gen = "undecodable" THEN [raised |-> TRUE, file |-> Empty]
    ELSE [raised |-> FALSE, file |-> Content(i)]

\* A faulty variant: the timeout is reported and raised again.
OnTimeoutPropagates == Propagated(<<"tests_timeout_msg">>)

\* except subprocess.TimeoutExpired: print(...); return 0.0
OnTimeout == Returned(Zero, <<"tests_timeout_msg">>)

\* except Exception as e: print(...); return 0.0
OnException == Returned(Zero, <<"tests_error_msg">>)

\* test_score = run_tests(...) in main, given what run_tests did
TestsReturn(r) ==
    IF r.raised
    THEN Fail /\ UNCHANGED test_score
    ELSE /\ test_score' = r.score
         /\ stdout' = stdout \o r.printed
         /\ pc' = "quality"
         /\ UNCHANGED exit_status

RtStage(stages) ==
    /\ pc = "rt_stage"
    /\ \E st \in stages :
         LET c == StageCopy(staged[SolutionPath(1)], gen_file, 1, st)
         IN  IF c.raised
             THEN /\ staged' = [staged EXCEPT
                                  ![SolutionPath(1)] = StagedAfterException(c.file)]
                  /\ TestsReturn(OnException)
             ELSE /\ staged' = [staged EXCEPT ![SolutionPath(1)] = c.file]
                  /\ pc' = "rt_harness"
                  /\ UNCHANGED <<stdout, exit_status, test_score>>
    /\ UNCHANGED <<inputs, weights, syntax_score, similarity_score, quality_score,
                   quality_report, final_score, tools, conc>>

RtHarness(outcomes) ==
    /\ pc = "rt_harness"
    /\ \E h \in outcomes :
         /\ result' = h
         /\ CASE h.kind = "ran" ->
                   /\ pc' = "rt_finish"
                   /\ UNCHANGED <<staged, stdout, exit_status, test_score>>
              [] h.kind = "timeout" ->
                   /\ staged' = [staged EXCEPT ![SolutionPath(1)] = StagedAfterException(@)]
                   /\ TestsReturn(OnTimeout)
              [] OTHER ->
                   /\ staged' = [staged EXCEPT ![SolutionPath(1)] = StagedAfterException(@)]
                   /\ TestsReturn(OnException)
    /\ UNCHANGED <<inputs, weights, syntax_score, similarity_score, quality_score,
                   quality_report, final_score, flake8_result, pylint_result, conc>>

RtFinish ==
    /\ pc = "rt_finish"
    /\ staged' = IF staged[SolutionPath(1)] # Absent
                  THEN [staged EXCEPT ![SolutionPath(1)] = RemoveStaged(@)]
                  ELSE staged
    /\ TestsReturn(Returned(ParsePytest(result.stdout), <<>>))
    /\ UNCHANGED <<inputs, weights, syntax_score, similarity_score, quality_score,
                   quality_report, final_score, tools, conc>>

Quality(flake8s, pylints) ==
    /\ pc = "quality"
    /\ \E f \in flake8s, p \in pylints :
         LET pr == IF f.kind = "ran" THEN p ELSE PylintFailed("not_run")
             r == calculate_code_quality(f, pr)
         IN  /\ flake8_result' = f
             /\ pylint_result' = pr
             /\ IF r.raised
                THEN Fail /\ UNCHANGED <<quality_score, quality_report>>
                ELSE /\ quality_score' = r.score
                     /\ quality_report' = r.report
                     /\ stdout' = stdout \o r.printed
                     /\ pc' = "report"
                     /\ UNCHANGED exit_status
    /\ UNCHANGED <<inputs, weights, syntax_score, similarity_score, test_score,
                   final_score, staged, result, conc>>

Report ==
    /\ pc = "report"
    /\ final_score' = FinalScore(weights, syntax_score, similarity_score,
                                 test_score, quality_score)
    /\ stdout' = stdout \o ReportLines
    /\ exit_status' = 0
    /\ pc' = "done"
    /\ UNCHANGED <<inputs, weights, syntax_score, similarity_score, test_score,
                   quality_score, quality_report, staged, tools, conc>>

(***************************************************************************)
(* Concurrent invocations of run_tests on one test directory.  Invocation  *)
(* i stages candidate i; each step below is one call of run_tests.         *)
(***************************************************************************)
CStage(i) ==
    /\ cpc[i] = "stage"
    /\ staged' = [staged EXCEPT ![SolutionPath(i)] = StageCopy(@, "valid", i, "ok").file]
    /\ cpc' = [cpc EXCEPT ![i] = "harness"]
    /\ UNCHANGED <<observed, cret>>
    /\ UNCHANGED SeqVars

\* pytest imports the module under test, or fails to when it is gone, or hangs
CHarness(i, kinds) ==
    /\ cpc[i] = "harness"
    /\ \E k \in kinds :
         /\ observed' = [observed EXCEPT ![i] = staged[SolutionPath(i)]]
         /\ IF k = "ran"
            THEN cpc' = [cpc EXCEPT ![i] = "exists"] /\ UNCHANGED cret
            ELSE /\ cpc' = [cpc EXCEPT ![i] = "done"]
                 /\ cret' = [cret EXCEPT ![i] = "timeout"]
    /\ UNCHANGED staged
    /\ UNCHANGED SeqVars

\* if os.path.exists(solution_path):
CExists(i) ==
    /\ cpc[i] = "exists"
    /\ IF staged[SolutionPath(i)] # Absent
       THEN cpc' = [cpc EXCEPT ![i] = "remove"] /\ UNCHANGED cret
       ELSE /\ cpc' = [cpc EXCEPT ![i] = "done"]
            /\ cret' = [cret EXCEPT ![i] = "returned"]
    /\ UNCHANGED <<staged, observed>>
    /\ UNCHANGED SeqVars

\* os.remove(solution_path): FileNotFoundError when the file went meanwhile
CRemove(i) ==
    /\ cpc[i] = "remove"
    /\ IF staged[SolutionPath(i)] # Absent
       THEN /\ staged' = [staged EXCEPT ![SolutionPath(i)] = RemoveStaged(@)]
            /\ cret' = [cret EXCEPT ![i] = "returned"]
       ELSE /\ cret' = [cret EXCEPT ![i] = "error"]
            /\ UNCHANGED staged
    /\ cpc' = [cpc EXCEPT ![i] = "done"]
    /\ UNCHANGED observed
    /\ UNCHANGED SeqVars

(***************************************************************************)
(* Scopes: the inputs and the tool behaviours a specification ranges over. *)
(***************************************************************************)
\* Summary phrases: counts of distinct outcome words, in any order
PhraseSeqs ==
    UNION {{p \in [1..n -> (1..MaxCount) \X CountWords] :
              \A i, j \in 1..n : i # j => p[i][2] # p[j][2]} : n \in 0..3}

HarnessOutputs ==
    {<<>>, <<HeaderLine>>} \cup {<<HeaderLine, SummaryLine(p)>> : p \in PhraseSeqs}

HarnessAll == {TimedOut, NotFound} \cup {Ran(o) : o \in HarnessOutputs}

HarnessFew ==
    {TimedOut, NotFound, Ran(<<HeaderLine>>),
     Ran(<<HeaderLine, SummaryLine(<<<<MaxCount, "passed">>>>)>>),
     Ran(<<HeaderLine, SummaryLine(<<<<1, "failed">>, <<MaxCount, "passed">>>>)>>)}

Flake8All ==
    {Flake8Failed("not_found"), Flake8Failed("timeout")}
    \cup {Flake8Ran(n, b) : n \in 0..MaxFlake8, b \in 0..1}

Flake8Few ==
    {Flake8Failed("not_found"), Flake8Failed("timeout"), Flake8Ran(0, 0), Flake8Ran(1, 1)}

PylintAll ==
    {PylintFailed("not_found"), PylintFailed("timeout"),
     PylintRan("empty", 0, 0, "none"), PylintRan("not_json", 0, 0, "none"),
     PylintRan("scalar", 0, 0, "none")}
    \cup {PylintRan("array", n, k, b) :
            n \in 0..MaxPylint, k \in 0..1,
            b \in {"none", "no_type", "counted_no_line", "other_no_line"}}

PylintFew ==
    {PylintFailed("not_found"), PylintFailed("timeout"),
     PylintRan("not_json", 0, 0, "none"), PylintRan("scalar", 0, 0, "none"),
     PylintRan("array", 0, 0, "none"), PylintRan("array", 1, 1, "none")}

\* Weight components, in hundredths
WeightVals == {-50, 0, 10, 30, 40, 50, 51, 150}

WeightArgsAll ==
    {DefaultWeightsArg, <<NumTok(50), BadTok>>}
    \cup UNION {[1..n -> {NumTok(v) : v \in WeightVals}] : n \in 2..MaxWeightsLen}

WeightArgsFew ==
    {DefaultWeightsArg, <<NumTok(50), BadTok>>, <<NumTok(50), NumTok(50)>>,
     <<NumTok(40), NumTok(30), NumTok(30), NumTok(0)>>}

GenFiles == {"valid", "malformed", "undecodable"}
RefFiles == {"same", "reformatted", "partial", "disjoint", "undecodable"}

MainScope ==
    [files |-> SUBSET RequiredFiles, weights |-> WeightArgsFew,
     gen |-> GenFiles, ref |-> RefFiles, stage |-> {"ok", "unwritable"},
     harness |-> HarnessFew, flake8 |-> Flake8Few, pylint |-> PylintFew]

TestsScope ==
    [files |-> {RequiredFiles}, weights |-> {DefaultWeightsArg},
     gen |-> {"valid"}, ref |-> {"same"}, stage |-> {"ok", "unwritable"},
     harness |-> HarnessAll, flake8 |-> {Flake8Ran(0, 0)},
     pylint |-> {PylintRan("array", 0, 0, "none")}]

QualityScope ==
    [files |-> {RequiredFiles}, weights |-> {DefaultWeightsArg},
     gen |-> {"valid"}, ref |-> {"same"}, stage |-> {"ok"},
     harness |-> {TimedOut, Ran(<<HeaderLine>>)},
     flake8 |-> Flake8All, pylint |-> PylintAll]

WeightsScope ==
    [files |-> {RequiredFiles}, weights |-> WeightArgsAll,
     gen |-> {"valid", "malformed"}, ref |-> {"same", "disjoint"}, stage |-> {"ok"},
     harness |-> {TimedOut, Ran(<<HeaderLine, SummaryLine(<<<<1, "passed">>, <<1, "failed">>>>)>>)},
     flake8 |-> {Flake8Ran(0, 0)}, pylint |-> {PylintRan("array", 0, 0, "none")}]

(***************************************************************************)
(* The specifications.                                                     *)
(***************************************************************************)
InitLocals ==
    /\ weights = <<>>
    /\ syntax_score = Zero
    /\ similarity_score = Zero
    /\ test_score = Zero
    /\ quality_score = Zero
    /\ quality_report = NoReport
    /\ final_score = Zero
    /\ stdout = <<>>
    /\ exit_status = -1
    /\ staged = [p \in Invs |-> Absent]
    /\ result = NotRun
    /\ flake8_result = Flake8Failed("not_run")
    /\ pylint_result = PylintFailed("not_run")
    /\ observed = [i \in Invs |-> Absent]
    /\ cret = [i \in Invs |-> "none"]

InitIn(S) ==
    /\ files \in S.files
    /\ weights_arg \in S.weights
    /\ gen_file \in S.gen
    /\ ref_file \in S.ref
    /\ pc = "check_files"
    /\ cpc = [i \in Invs |-> "idle"]
    /\ InitLocals

NextIn(S) ==
    \/ CheckFiles
    \/ ParseWeights
    \/ SyntaxStep
    \/ SimilarityStep
    \/ RtStage(S.stage)
    \/ RtHarness(S.harness)
    \/ RtFinish
    \/ Quality(S.flake8, S.pylint)
    \/ Report

Init == InitIn(MainScope)
Next == NextIn(MainScope)
Spec == Init /\ [][Next]_vars

InitTests == InitIn(TestsScope)
NextTests == NextIn(TestsScope)
SpecTests == InitTests /\ [][NextTests]_vars

InitQuality == InitIn(QualityScope)
NextQuality == NextIn(QualityScope)
SpecQuality == InitQuality /\ [][NextQuality]_vars

InitWeights == InitIn(WeightsScope)
NextWeights == NextIn(WeightsScope)
SpecWeights == InitWeights /\ [][NextWeights]_vars

\* Every invocation has passed main's checks and is about to call run_tests.
InitConc ==
    /\ files = RequiredFiles
    /\ weights_arg = DefaultWeightsArg
    /\ gen_file = "valid"
    /\ ref_file = "same"
    /\ pc = "run_tests"
    /\ cpc = [i \in Invs |-> "stage"]
    /\ InitLocals

NextConc ==
    \E i \in Invs :
        \/ CStage(i)
        \/ CHarness(i, {"ran", "timeout"})
        \/ CExists(i)
        \/ CRemove(i)

SpecConc == InitConc /\ [][NextConc]_vars

(***************************************************************************)
(* The claims.                                                             *)
(***************************************************************************)
\* main's positions after run_tests has returned to it
TestsReturned == pc \in {"quality", "report"} \/ (pc = "done" /\ exit_status = 0)

\* main's positions after calculate_code_quality has returned to it
QualityReturned == pc = "report" \/ (pc = "done" /\ exit_status = 0)

\* The counts the summary phrases of the harness output state
RECURSIVE CountIn(_, _)
CountIn(line, w) ==
    IF Len(line) < 2 THEN 0
    ELSE IF line[1].w = "num" /\ line[2].w = w THEN line[1].n
    ELSE CountIn(Tail(line), w)

RECURSIVE CountOf(_, _)
CountOf(lines, w) ==
    IF lines = <<>> THEN 0 ELSE CountIn(lines[1], w) + CountOf(Tail(lines), w)

\* passed / (passed + failed + errors), 0.0 when the denominator is 0
ExpectedRate(lines) ==
    LET p == CountOf(lines, "passed")
        t == p + CountOf(lines, "failed") + CountOf(lines, "error")
    IN  IF t > 0 THEN Rat(p, t) ELSE Rat(0, 1)

\* The report of a successful run, as the last lines printed
CompleteReport ==
    /\ Len(stdout) >= 10
    /\ SubSeq(stdout, Len(stdout) - 9, Len(stdout)) =
         <<"Syntax Score", "Similarity Score", "Test Score", "Quality Score",
           "separator", "FINAL SCORE", "blank", "QUALITY REPORT START",
           "quality_report", "QUALITY REPORT END">>

ReportLineTags ==
    {"Syntax Score", "Similarity Score", "Test Score", "Quality Score",
     "separator", "FINAL SCORE", "QUALITY REPORT START", "quality_report",
     "QUALITY REPORT END"}

ReportLinesPrinted == Cardinality({i \in 1..Len(stdout) : stdout[i] \in ReportLineTags})

\* C1: whenever run_tests has returned, on every exit path, the staged file
\* temp_solution.py is gone from the test directory.
C1_StagedFileGoneOnReturn ==
    TestsReturned => staged[1] = <<"absent", 0>>

\* C2: identical candidate and reference, valid syntax, a harness output
\* reporting only passed tests, zero diagnostics from both tools and the
\* default weights give a final score of 1.0.
C2_PerfectCandidateScoresOne ==
    ( /\ pc = "done"
      /\ exit_status = 0
      /\ weights_arg = <<NumTok(20), NumTok(20), NumTok(30), NumTok(30)>>
      /\ gen_file = "valid"
      /\ ref_file = "same"
      /\ result.kind = "ran"
      /\ CountOf(result.stdout, "passed") > 0
      /\ CountOf(result.stdout, "failed") = 0
      /\ CountOf(result.stdout, "error") = 0
      /\ flake8_result.kind = "ran" /\ flake8_result.diags = 0
      /\ pylint_result.kind = "ran" /\ pylint_result.form = "array"
      /\ pylint_result.counted = 0 /\ pylint_result.other = 0
      /\ pylint_result.bad = "none" )
    => RatEq(final_score, Rat(1, 1))

\* C3: when the harness ran to its end, run_tests returns
\* passed / (passed + failed + errors) of the counts its output states, and 0.0
\* when that denominator is 0.
C3_RateOfStatedCounts ==
    (TestsReturned /\ result.kind = "ran")
    => RatEq(test_score, ExpectedRate(result.stdout))

\* What the command line proposes, when every token is a number
Proposed == ParsedWeights(weights_arg)
WeightsSettled ==
    pc \in {"syntax", "similarity", "rt_stage", "rt_harness", "rt_finish",
            "quality", "report"}
    \/ (pc = "done" /\ exit_status = 0)

C5_FinalScoreInUnitInterval ==
    (pc = "done" /\ exit_status = 0)
    => (RatLe(Rat(0, 1), final_score) /\ RatLe(final_score, Rat(1, 1)))

\* C6: a failing scorer gives its fallback value (tests 0.0, quality 0.5 with
\* the placeholder, syntax and similarity 0.0), the next step of main can
\* always be taken, and the run ends with the complete report and status 0.
C6_ScorerFailuresDoNotAbort ==
    /\ (TestsReturned /\ result.kind # "ran") => RatEq(test_score, Rat(0, 1))
    /\ (QualityReturned /\ (flake8_result.kind # "ran" \/ pylint_result.kind # "ran"))
         => (RatEq(quality_score, Rat(1, 2)) /\ quality_report = <<"placeholder", 0, 0>>)
    /\ (pc = "done" /\ exit_status = 0 /\ gen_file # "valid")
         => RatEq(syntax_score, Rat(0, 1))
    /\ (pc = "done" /\ exit_status = 0 /\ "undecodable" \in {gen_file, ref_file})
         => RatEq(similarity_score, Rat(0, 1))
    /\ (pc = "done" /\ files = {"generated", "reference", "tests"}
          /\ \A i \in 1..Len(weights_arg) : weights_arg[i].ok)
         => (exit_status = 0 /\ CompleteReport /\ ReportLinesPrinted = 9)
    /\ pc # "done" => ENABLED Next

\* C6's case: the harness timed out, flake8 is not installed, the candidate does
\* not parse, and the report is out.
C6_Witness ==
    /\ pc = "done"
    /\ exit_status = 0
    /\ CompleteReport
    /\ result.kind = "timeout"
    /\ flake8_result.kind = "not_found"
    /\ gen_file = "malformed"
    /\ ref_file = "undecodable"

\* C7: a run ends with the complete report and status 0, or with no report
\* line, a failure line and status 1; a missing input file gives the latter;
\* no report line is out before the end or in a failed run.
C7_ReportOrFailure ==
    /\ pc = "done" =>
         \/ exit_status = 0 /\ CompleteReport /\ ReportLinesPrinted = 9
              /\ \A i \in 1..Len(stdout) : stdout[i] # "failure"
         \/ exit_status = 1 /\ ReportLinesPrinted = 0
              /\ Len(stdout) > 0 /\ stdout[Len(stdout)] = "failure"
    /\ (pc = "done" /\ files # {"generated", "reference", "tests"}) => exit_status = 1
    /\ pc # "done" => (exit_status = -1 /\ ReportLinesPrinted = 0)

\* C7's case: the reference file is missing and the run has failed.
C7_Witness ==
    /\ pc = "done"
    /\ exit_status = 1
    /\ files = {"generated", "tests"}
    /\ stdout = <<"failure">>

\* The step function of the specification, in tenths
StepTenths(n) ==
    CASE n = 0 -> 10
      [] n \in 1..5 -> 8
      [] n \in 6..10 -> 6
      [] n \in 11..20 -> 4
      [] OTHER -> 2

\* Both tools ran and nothing was raised while their output was read
QualityMeasured ==
    /\ QualityReturned
    /\ flake8_result.kind = "ran"
    /\ pylint_result.kind = "ran"
    /\ pylint_result.form # "scalar"
    /\ pylint_result.bad \notin {"no_type", "counted_no_line"}

\* The findings of the two tools, merged
MergedFindings ==
    flake8_result.diags
    + (IF pylint_result.form = "array" THEN pylint_result.counted ELSE 0)

\* C8: when both tools ran without exception the quality score is the step
\* function of the total of their findings, however they are split, and the
\* step function never increases.
C8_StepFunctionOfTotal ==
    /\ QualityMeasured => RatEq(quality_score, Rat(StepTenths(MergedFindings), 10))
    /\ \A a, b \in 0..(MaxFlake8 + MaxPylint) :
         a <= b => RatLe(QualityOf(b), QualityOf(a))

\* C8's case: 19 findings of flake8 and 2 of pylint make more than 20.
C8_Witness ==
    /\ pc = "done"
    /\ QualityMeasured
    /\ flake8_result.diags = 19
    /\ pylint_result.form = "array"
    /\ pylint_result.counted = 2
    /\ RatEq(quality_score, Rat(2, 10))

\* Tool B's output is malformed: no JSON, or JSON that is no array of objects
\* with the expected fields
PylintMalformed ==
    /\ pylint_result.kind = "ran"
    /\ \/ pylint_result.form \in {"not_json", "scalar"}
       \/ pylint_result.form = "array" /\ pylint_result.bad # "none"

C10_StagedFileIsShared ==
    [][\A i, j \in Invs :
         (i # j /\ cpc[i] = "harness") =>
           /\ (cpc[j] = "stage" /\ cpc'[j] = "harness")
                => staged'[SolutionPath(i)] = <<"candidate", j>>
           /\ (cpc[j] = "remove" /\ cpc'[j] = "done" /\ cret'[j] = "returned")
                => staged'[SolutionPath(i)] = <<"absent", 0>>]_vars

\* C10's case: invocation 1's harness ran on invocation 2's candidate, and
\* invocation 2's harness found the staged file deleted.
C10_Witness ==
    /\ cpc[1] # "stage" /\ cpc[1] # "harness"
    /\ cpc[2] # "stage" /\ cpc[2] # "harness"
    /\ observed[1] = <<"candidate", 2>>
    /\ observed[2] = <<"absent", 0>>

====
